---- MODULE Spec2Model ----
(***************************************************************************)
(* Model of src/lib/serializer.ts (ts-api-guardian): publicApiInternal,    *)
(* emitResolvedDeclarations, getResolvedSymbols and getSanitizedText.      *)
(*                                                                         *)
(* Strings are sequences of UTF-16 code units (naturals), so that the two  *)
(* string orders the code uses (String#localeCompare and the > operator)   *)
(* are computed and can disagree.  A syntax tree is a function from node   *)
(* ids 1..N to node records; node id 0 stands for undefined/null.          *)
(***************************************************************************)
EXTENDS Integers, Sequences, FiniteSets, TLC

VARIABLES pc, fileName, entrypoint, options, program, rawSymbols,
          resolvedSymbols, index, output, emitted, located, warnings, error,
          frontEndCalls, result, decl, sanitized, sourceFiles, moduleSymbol

vars == <<pc, fileName, entrypoint, options, program, rawSymbols,
          resolvedSymbols, index, output, emitted, located, warnings, error,
          frontEndCalls, result, decl, sanitized, sourceFiles, moduleSymbol>>

-----------------------------------------------------------------------------
(* Strings *)

NL == 10

Range(s) == {s[i] : i \in 1..Len(s)}

RECURSIVE Flatten(_)
Flatten(ss) == IF ss = <<>> THEN <<>> ELSE Head(ss) \o Flatten(Tail(ss))

\* String#substring(from, to) on 0-based offsets, from <= to <= length
substring(s, from, to) == SubSeq(s, from + 1, to)

\* a > b on JavaScript strings: lexicographic order of the code units
RECURSIVE StrGreater(_, _)
StrGreater(a, b) ==
  IF a = <<>> THEN FALSE
  ELSE IF b = <<>> THEN TRUE
  ELSE IF Head(a) # Head(b) THEN Head(a) > Head(b)
  ELSE StrGreater(Tail(a), Tail(b))

\* String#split(sep) for a one-unit separator: always at least one piece
RECURSIVE split(_, _)
split(s, sep) ==
  IF \A i \in 1..Len(s) : s[i] # sep THEN <<s>>
  ELSE LET k == CHOOSE i \in 1..Len(s) :
                  s[i] = sep /\ \A j \in 1..(i - 1) : s[j] # sep
       IN <<SubSeq(s, 1, k - 1)>> \o split(SubSeq(s, k + 1, Len(s)), sep)

\* Array#join(sep)
RECURSIVE join(_, _)
join(ss, sep) ==
  IF ss = <<>> THEN <<>>
  ELSE IF Len(ss) = 1 THEN ss[1]
  ELSE ss[1] \o <<sep>> \o join(Tail(ss), sep)

\* Array#filter
RECURSIVE filterNonEmpty(_)
filterNonEmpty(ss) ==
  IF ss = <<>> THEN <<>>
  ELSE IF Len(Head(ss)) # 0 THEN <<Head(ss)>> \o filterNonEmpty(Tail(ss))
  ELSE filterNonEmpty(Tail(ss))

stripEmptyLinesKeepAll(text) == text

stripEmptyLines(text) == join(filterNonEmpty(split(text, NL)), NL)

\* Array#sort(cmp) (stable, ECMAScript 2019) for a comparator that is a
\* consistent total preorder, given as the function cmp[a, b] on the
\* elements: element i lands after every element that compares smaller and
\* every equal element that preceded it.
sort(s, cmp) ==
  LET n == Len(s)
      rank(i) == Cardinality({j \in 1..n :
                    \/ cmp[s[j], s[i]] < 0
                    \/ cmp[s[j], s[i]] = 0 /\ j < i}) + 1
  IN [k \in 1..n |-> s[CHOOSE i \in 1..n : rank(i) = k]]

compareFunction(a, b) == IF a = b THEN 0 ELSE IF a > b THEN 1 ELSE -1

compareStrings(a, b) == IF a = b THEN 0 ELSE IF StrGreater(a, b) THEN 1 ELSE -1

-----------------------------------------------------------------------------
(* Syntax trees as the front end hands them over (ts.Node).  A node record   *)
(* carries kind, parent, children (Node#getChildren()), flags, the links     *)
(* name / expression / typeName / left, Identifier#text, and for a token its *)
(* leading trivia (whitespace and comment pieces) and its own characters.    *)

Leaf(kind, parent, flags, trivia, token) ==
  [kind |-> kind, parent |-> parent, children |-> <<>>, flags |-> flags,
   name |-> 0, expression |-> 0, typeName |-> 0, left |-> 0,
   text |-> token, trivia |-> trivia, token |-> token]

Inner(kind, parent, children, flags) ==
  [kind |-> kind, parent |-> parent, children |-> children, flags |-> flags,
   name |-> 0, expression |-> 0, typeName |-> 0, left |-> 0,
   text |-> <<>>, trivia |-> <<>>, token |-> <<>>]

Ws(s) == [comment |-> FALSE, s |-> s]
Comment(s) == [comment |-> TRUE, s |-> s]

RECURSIVE DocLeaves(_, _)
DocLeaves(raw, n) ==
  IF raw[n].children = <<>> THEN <<n>>
  ELSE Flatten([k \in 1..Len(raw[n].children) |->
                  DocLeaves(raw, raw[n].children[k])])

RECURSIVE FirstLeaf(_, _)
FirstLeaf(raw, n) ==
  IF raw[n].children = <<>> THEN n ELSE FirstLeaf(raw, raw[n].children[1])

RECURSIVE LastLeaf(_, _)
LastLeaf(raw, n) ==
  IF raw[n].children = <<>> THEN n
  ELSE LastLeaf(raw, raw[n].children[Len(raw[n].children)])

TriviaText(tr) == Flatten([i \in 1..Len(tr) |-> tr[i].s])

\* ts.getLeadingCommentRanges(text, pos) for a token starting at pos whose
\* leading trivia is tr: one range per comment piece (none: empty list)
RECURSIVE CommentRanges(_, _)
CommentRanges(tr, pos) ==
  IF tr = <<>> THEN <<>>
  ELSE LET e == pos + Len(Head(tr).s)
       IN (IF Head(tr).comment THEN <<[pos |-> pos, end |-> e]>> ELSE <<>>)
          \o CommentRanges(Tail(tr), e)

\* The SourceFile the front end builds from the raw nodes (root is node 1):
\* text is the concatenation of the tokens with their trivia in document
\* order; pos/end are the full span, start is Node#getStart().
MkProgram(raw) ==
  LET leaves == DocLeaves(raw, 1)
      fulls == [k \in 1..Len(leaves) |->
                  TriviaText(raw[leaves[k]].trivia) \o raw[leaves[k]].token]
      offs == [k \in 1..Len(leaves) |->
                  Len(Flatten(SubSeq(fulls, 1, k - 1)))]
      idx == [l \in Range(leaves) |-> CHOOSE k \in 1..Len(leaves) : leaves[k] = l]
      first == [n \in 1..Len(raw) |-> FirstLeaf(raw, n)]
      last == [n \in 1..Len(raw) |-> LastLeaf(raw, n)]
  IN [text |-> Flatten(fulls),
      nodes |-> [n \in 1..Len(raw) |->
         [pos |-> offs[idx[first[n]]],
          start |-> offs[idx[first[n]]] + Len(TriviaText(raw[first[n]].trivia)),
          end |-> offs[idx[last[n]]] + Len(fulls[idx[last[n]]]),
          comments |-> CommentRanges(raw[first[n]].trivia, offs[idx[first[n]]])]
         @@ raw[n]]]

getText(p, n) == substring(p.text, p.nodes[n].start, p.nodes[n].end)

-----------------------------------------------------------------------------
(* getSanitizedText and its helpers *)

memberDeclarationOrder ==
  [k \in {"PropertySignature", "PropertyDeclaration", "GetAccessor",
          "SetAccessor", "CallSignature", "Constructor", "ConstructSignature",
          "IndexSignature", "MethodSignature", "MethodDeclaration"} |->
     CASE k \in {"PropertySignature", "PropertyDeclaration", "GetAccessor",
                 "SetAccessor"} -> 0
       [] k = "CallSignature" -> 1
       [] k \in {"Constructor", "ConstructSignature"} -> 2
       [] k = "IndexSignature" -> 3
       [] OTHER -> 4]

\* do { lhs = lhs.expression } while (lhs && lhs.kind !== Identifier)
RECURSIVE WalkExpression(_, _)
WalkExpression(p, lhs) ==
  LET next == p.nodes[lhs].expression
  IN IF next # 0 /\ p.nodes[next].kind # "Identifier"
     THEN WalkExpression(p, next) ELSE next

\* do { lhs = lhs.left } while (lhs && lhs.kind !== Identifier)
RECURSIVE WalkLeft(_, _)
WalkLeft(p, lhs) ==
  LET next == p.nodes[lhs].left
  IN IF next # 0 /\ p.nodes[next].kind # "Identifier"
     THEN WalkLeft(p, next) ELSE next

getFirstQualifierNone(p, n) == 0

getFirstQualifier(p, n) ==
  IF p.nodes[n].kind = "PropertyAccessExpression" THEN WalkExpression(p, n)
  ELSE IF p.nodes[n].kind = "TypeReference"
       THEN WalkLeft(p, p.nodes[n].typeName)
  ELSE 0

\* Array#indexOf(x) < 0
NotIn(items, x) == \A i \in 1..Len(items) : items[i] # x

\* a.flags & ts.NodeFlags.Static: zero, or the (positive) flag bit
StaticBits(p, n) == IF "Static" \in p.nodes[n].flags THEN 1 ELSE 0

NameText(p, n) ==
  getText(p, IF p.nodes[n].name # 0 THEN p.nodes[n].name ELSE n)

memberCompareStaticFirst(p, a, b) ==
  IF compareFunction(StaticBits(p, b), StaticBits(p, a)) # 0
  THEN compareFunction(StaticBits(p, b), StaticBits(p, a))
  ELSE IF compareFunction(memberDeclarationOrder[p.nodes[a].kind],
                          memberDeclarationOrder[p.nodes[b].kind]) # 0
  THEN compareFunction(memberDeclarationOrder[p.nodes[a].kind],
                       memberDeclarationOrder[p.nodes[b].kind])
  ELSE compareStrings(NameText(p, a), NameText(p, b))

\* the comparator handed to children.sort: x || y || z on numbers
memberCompare(p, a, b) ==
  IF compareFunction(StaticBits(p, a), StaticBits(p, b)) # 0
  THEN compareFunction(StaticBits(p, a), StaticBits(p, b))
  ELSE IF compareFunction(memberDeclarationOrder[p.nodes[a].kind],
                          memberDeclarationOrder[p.nodes[b].kind]) # 0
  THEN compareFunction(memberDeclarationOrder[p.nodes[a].kind],
                       memberDeclarationOrder[p.nodes[b].kind])
  ELSE compareStrings(NameText(p, a), NameText(p, b))

\* the children in the order they are rendered
renderOrder(p, n) ==
  LET children == p.nodes[n].children
      parent == p.nodes[n].parent
      cmp == [a \in Range(children), b \in Range(children) |->
                memberCompare(p, a, b)]
  IN IF /\ p.nodes[n].kind = "SyntaxList"
        /\ parent # 0
        /\ p.nodes[parent].kind \in {"ClassDeclaration", "InterfaceDeclaration"}
        /\ \A i \in 1..Len(children) :
              p.nodes[children[i]].kind \in DOMAIN memberDeclarationOrder
     THEN sort(children, cmp)
     ELSE children

\* the text of a node without children, leading comments cut off
leafText(p, n) ==
  LET ranges == p.nodes[n].comments
      ends == {ranges[i].end : i \in 1..Len(ranges)} \cup {p.nodes[n].pos}
      tail == CHOOSE e \in ends : \A f \in ends : f <= e
  IN substring(p.text, tail, p.nodes[n].end)

Returned(text) == [threw |-> FALSE, text |-> text, at |-> 0]
Thrown(at) == [threw |-> TRUE, text |-> <<>>, at |-> at]

isPrivateNever(p, n) == FALSE

isPrivate(p, n) == "Private" \in p.nodes[n].flags

RECURSIVE getSanitizedText(_, _, _)
RECURSIVE mapJoin(_, _, _)

\* children.map(n => getSanitizedText(n, options)).join(''): the first child
\* that throws ends the map
mapJoin(p, ns, opts) ==
  IF ns = <<>> THEN Returned(<<>>)
  ELSE LET first == getSanitizedText(p, Head(ns), opts)
       IN IF first.threw THEN first
          ELSE LET rest == mapJoin(p, Tail(ns), opts)
               IN IF rest.threw THEN rest
                  ELSE Returned(first.text \o rest.text)

getSanitizedText(p, n, opts) ==
  IF isPrivate(p, n) THEN Returned(<<>>)
  ELSE LET firstQualifier == getFirstQualifier(p, n)
       IN IF /\ firstQualifier # 0
             /\ \/ ~opts.allowModuleIdentifiers.defined
                \/ NotIn(opts.allowModuleIdentifiers.items,
                         p.nodes[firstQualifier].text)
          THEN Thrown(firstQualifier)
          ELSE IF Len(p.nodes[n].children) # 0
               THEN mapJoin(p, renderOrder(p, n), opts)
               ELSE Returned(leafText(p, n))

-----------------------------------------------------------------------------
(* Values shared by the specifications *)

NoPattern == [defined |-> FALSE, prefix |-> <<>>]
NoIdentifiers == [defined |-> FALSE, items |-> <<>>]
NoOptions == [stripExportPattern |-> NoPattern,
              allowModuleIdentifiers |-> NoIdentifiers]
NoProgram == [text |-> <<>>, nodes |-> <<>>]
NoResult == [returned |-> FALSE, text |-> <<>>]
NoModule == [defined |-> FALSE, exports |-> <<>>]

Idle ==
  /\ fileName = <<>> /\ entrypoint = <<>> /\ options = NoOptions
  /\ program = NoProgram /\ rawSymbols = <<>> /\ resolvedSymbols = <<>>
  /\ index = 0 /\ output = <<>> /\ emitted = <<>> /\ located = {}
  /\ warnings = <<>> /\ error = "" /\ frontEndCalls = 0
  /\ result = NoResult /\ decl = 0 /\ sanitized = Returned(<<>>)
  /\ sourceFiles = {} /\ moduleSymbol = NoModule

-----------------------------------------------------------------------------
(* SpecMembers: getSanitizedText applied to class-like declarations whose   *)
(* member list is drawn from MemberShapes.                                  *)

MaxMembers == 3

MemberShapes ==
  {[static |-> FALSE, kind |-> "PropertyDeclaration", name |-> <<97>>],
   [static |-> FALSE, kind |-> "PropertyDeclaration", name |-> <<66>>],
   [static |-> TRUE, kind |-> "PropertyDeclaration", name |-> <<97>>],
   [static |-> FALSE, kind |-> "MethodDeclaration", name |-> <<97>>],
   [static |-> FALSE, kind |-> "Constructor", name |-> <<>>],
   [static |-> FALSE, kind |-> "SemicolonClassElement", name |-> <<>>]}

MemberLists == UNION {[1..n -> MemberShapes] : n \in 0..MaxMembers}

\* declaration  <parentKind> C { member* }  : node 1 the declaration, node 2
\* the keyword, node 3 the SyntaxList of members; member i is node 3i+1 with
\* children 3i+2 (its name, or its keyword when it has none) and 3i+3 (the
\* rest of the member, the i-th digit).  Node privateAt, if any, is private.
ClassTree(parentKind, members, privateAt) ==
  LET n == Len(members)
      fl(id, base) == IF id = privateAt THEN base \cup {"Private"} ELSE base
      node(id) ==
        IF id = 1 THEN Inner(parentKind, 0, <<2, 3>>, fl(1, {"Export"}))
        ELSE IF id = 2
          THEN Leaf("Keyword", 1, fl(2, {}),
                    <<Comment(<<47, 47>>), Ws(<<NL>>)>>, <<67>>)
        ELSE IF id = 3
          THEN Inner("SyntaxList", 1, [i \in 1..n |-> 3 * i + 1], fl(3, {}))
        ELSE LET i == (id - 1) \div 3
                 m == members[IF id % 3 = 1 THEN i ELSE (id - 2) \div 3]
             IN IF id % 3 = 1
                THEN [name |-> IF m.name # <<>> THEN id + 1 ELSE 0]
                     @@ Inner(m.kind, 3, <<id + 1, id + 2>>,
                              fl(id, IF m.static THEN {"Static"} ELSE {}))
                ELSE IF id % 3 = 2
                THEN Leaf(IF m.name # <<>> THEN "Identifier" ELSE "Keyword",
                          id - 1, fl(id, {}), <<Ws(<<NL>>)>>,
                          IF m.name # <<>> THEN m.name ELSE <<107>>)
                ELSE Leaf("Token", id - 2, fl(id, {}), <<>>,
                          <<48 + (id \div 3)>>)
  IN [id \in 1..(3 * n + 3) |-> node(id)]

InitMembers == pc = "parse" /\ Idle

ParseMembers ==
  /\ pc = "parse"
  /\ \E parentKind \in {"ClassDeclaration", "InterfaceDeclaration",
                        "ModuleDeclaration"},
        members \in MemberLists :
       \E privateAt \in {0, 1, 3} \cup {3 * i + 1 : i \in 1..Len(members)}
                         \cup {3 * i + 3 : i \in 1..Len(members) \cap {1}} :
          program' = MkProgram(ClassTree(parentKind, members, privateAt))
  /\ pc' = "sanitize"
  /\ UNCHANGED <<fileName, entrypoint, options, rawSymbols, resolvedSymbols,
                 index, output, emitted, located, warnings, error,
                 frontEndCalls, result, decl, sanitized, sourceFiles, moduleSymbol>>

SanitizeNode ==
  /\ pc = "sanitize"
  /\ decl' = 1
  /\ sanitized' = getSanitizedText(program, 1, options)
  /\ pc' = "sanitized"
  /\ UNCHANGED <<fileName, entrypoint, options, program, rawSymbols,
                 resolvedSymbols, index, output, emitted, located, warnings,
                 error, frontEndCalls, result, sourceFiles, moduleSymbol>>

NextMembers == ParseMembers \/ SanitizeNode

SpecMembers == InitMembers /\ [][NextMembers]_vars

-----------------------------------------------------------------------------
(* Properties of getSanitizedText, checked under SpecMembers *)

Flagged(p, n, f) == f \in p.nodes[n].flags

Identity(n) == [k \in 1..n |-> k]

\* the texts of the nodes ns[perm[1]], ns[perm[2]], ... one after the other
RenderedIn(p, ns, perm) ==
  Flatten([k \in 1..Len(ns) |->
             getSanitizedText(p, ns[perm[k]], options).text])

StaticRank(p, n) == IF Flagged(p, n, "Static") THEN 1 ELSE 0

\* a sorts strictly before b: non-static first, then rank, then name text
KeyBefore(p, a, b) ==
  \/ StaticRank(p, a) < StaticRank(p, b)
  \/ /\ StaticRank(p, a) = StaticRank(p, b)
     /\ \/ memberDeclarationOrder[p.nodes[a].kind]
             < memberDeclarationOrder[p.nodes[b].kind]
        \/ /\ memberDeclarationOrder[p.nodes[a].kind]
                = memberDeclarationOrder[p.nodes[b].kind]
           /\ StrGreater(NameText(p, b), NameText(p, a))

\* a sorts strictly before b: static first, then rank, then name text
KeyBeforeStaticFirst(p, a, b) ==
  \/ StaticRank(p, a) > StaticRank(p, b)
  \/ /\ StaticRank(p, a) = StaticRank(p, b)
     /\ \/ memberDeclarationOrder[p.nodes[a].kind]
             < memberDeclarationOrder[p.nodes[b].kind]
        \/ /\ memberDeclarationOrder[p.nodes[a].kind]
                = memberDeclarationOrder[p.nodes[b].kind]
           /\ StrGreater(NameText(p, b), NameText(p, a))

\* perm sorts ns stably by the strict order before (a set of pairs)
IsStableSort(ns, perm, before) ==
  \A i, j \in 1..Len(ns) :
     i < j => /\ <<ns[perm[j]], ns[perm[i]]>> \notin before
              /\ <<ns[perm[i]], ns[perm[j]]>> \notin before
                    => perm[i] < perm[j]

MemberList == program.nodes[3].children

AllMembersRanked ==
  \A i \in 1..Len(MemberList) :
     program.nodes[MemberList[i]].kind \in DOMAIN memberDeclarationOrder

ClassLike ==
  program.nodes[1].kind \in {"ClassDeclaration", "InterfaceDeclaration"}

ListVisited ==
  /\ pc = "sanitized" /\ decl = 1
  /\ ~Flagged(program, 1, "Private") /\ ~Flagged(program, 3, "Private")
  /\ MemberList # <<>>

\* the text of the declaration is its keyword followed by the members in the
\* order perm
DeclarationRenders(perm) ==
  sanitized = Returned(leafText(program, 2)
                       \o RenderedIn(program, MemberList, perm))

\* C2 (as amended): the members of a class or interface whose kinds are all
\* in memberDeclarationOrder are rendered in the order of a stable sort on
\* (non-static before static, rank, code-unit order of the text of the
\* member's name, or of the whole member when it has no name); any other
\* child list is rendered in its original order.
C2_MemberOrder ==
  ListVisited =>
    IF ClassLike /\ AllMembersRanked
    THEN \E perm \in Permutations(1..Len(MemberList)) :
            /\ IsStableSort(MemberList, perm,
                  {ab \in Range(MemberList) \X Range(MemberList) :
                     KeyBefore(program, ab[1], ab[2])})
            /\ DeclarationRenders(perm)
    ELSE DeclarationRenders(Identity(Len(MemberList)))

\* C2 as stated: the same with static members before non-static ones
C2_StaticFirst ==
  ListVisited =>
    IF ClassLike /\ AllMembersRanked
    THEN \E perm \in Permutations(1..Len(MemberList)) :
            /\ IsStableSort(MemberList, perm,
                  {ab \in Range(MemberList) \X Range(MemberList) :
                     KeyBeforeStaticFirst(program, ab[1], ab[2])})
            /\ DeclarationRenders(perm)
    ELSE DeclarationRenders(Identity(Len(MemberList)))

\* a static member declared ahead of a non-static one has been moved behind it
C2_Witness ==
  /\ ListVisited /\ ClassLike /\ AllMembersRanked
  /\ \A n \in 1..Len(program.nodes) : ~Flagged(program, n, "Private")
  /\ \E i, j \in 1..Len(MemberList) :
        /\ i < j
        /\ Flagged(program, MemberList[i], "Static")
        /\ ~Flagged(program, MemberList[j], "Static")
  /\ ~DeclarationRenders(Identity(Len(MemberList)))

RECURSIVE PathUp(_, _, _)
PathUp(p, n, root) ==
  IF n = root \/ p.nodes[n].parent = 0 THEN {n}
  ELSE {n} \cup PathUp(p, p.nodes[n].parent, root)

\* leaf l lies at or below a private node of the subtree of root
Pruned(p, l, root) == \E a \in PathUp(p, l, root) : Flagged(p, a, "Private")

RECURSIVE VisibleLength(_, _, _)
VisibleLength(p, ls, root) ==
  IF ls = <<>> THEN 0
  ELSE (IF Pruned(p, Head(ls), root) THEN 0 ELSE Len(leafText(p, Head(ls))))
       + VisibleLength(p, Tail(ls), root)

\* C3: a private node and every leaf below one contribute no character to the
\* text getSanitizedText returns: the text is exactly as long as the texts of
\* the leaves that are not so pruned, and the digit that only a pruned leaf
\* holds does not occur in it.
C3_PrivatePruned ==
  pc = "sanitized" =>
    LET ls == DocLeaves(program.nodes, decl)
    IN /\ ~sanitized.threw
       /\ Len(sanitized.text) = VisibleLength(program, ls, decl)
       /\ \A k \in 1..Len(ls) :
             Pruned(program, ls[k], decl) /\ program.nodes[ls[k]].kind = "Token"
               => \A c \in Range(program.nodes[ls[k]].token) :
                     c \notin Range(sanitized.text)

\* a private member with children was pruned out of a non-empty text
C3_Witness ==
  /\ pc = "sanitized"
  /\ sanitized.text # <<>>
  /\ \E i \in 1..Len(MemberList) :
        /\ Flagged(program, MemberList[i], "Private")
        /\ program.nodes[MemberList[i]].children # <<>>
        /\ \A l \in Range(program.nodes[MemberList[i]].children) :
              /\ Pruned(program, l, decl)
              /\ leafText(program, l) # <<>>

-----------------------------------------------------------------------------
(* Spec: one call of publicApiInternal on the entry file below.             *)

\* The entry file as parsed by the front end:
\*   /* */ export declare class a extends ns.B { p: T; private m: q.T }
\*   // .. export declare function a() ;         (blank lines inside)
\*   export declare const A: q.T
\*   declare function B                          (not exported)
\*   export {ab}                                 (no Export flag on the statement)
\*   export private class B                      (Export and Private flags)
\*   export interface B { y: T; s: this.u }
\*   export declare namespace N { export const ab }
FileNodes ==
  <<
    Inner("SourceFile", 0, <<2, 21, 25, 35, 38, 42, 45, 59>>, {}),  \* 1
    [name |-> 4] @@ Inner("ClassDeclaration", 1, <<3, 4, 5, 9>>, {"Export"}),  \* 2
    Leaf("Keyword", 2, {}, <<Comment(<<47, 42>>), Ws(<<NL>>)>>, <<101>>),  \* 3
    Leaf("Identifier", 2, {}, <<Ws(<<32>>)>>, <<97>>),  \* 4
    [expression |-> 6] @@ Inner("PropertyAccessExpression", 2, <<6, 7, 8>>, {}),  \* 5
    Leaf("Identifier", 5, {}, <<Ws(<<32>>)>>, <<110, 115>>),  \* 6
    Leaf("DotToken", 5, {}, <<>>, <<46>>),  \* 7
    Leaf("Identifier", 5, {}, <<>>, <<66>>),  \* 8
    Inner("SyntaxList", 2, <<10, 14>>, {}),  \* 9
    [name |-> 11] @@ Inner("PropertyDeclaration", 9, <<11, 12>>, {}),  \* 10
    Leaf("Identifier", 10, {}, <<Ws(<<NL>>)>>, <<112>>),  \* 11
    [typeName |-> 13] @@ Inner("TypeReference", 10, <<13>>, {}),  \* 12
    Leaf("Identifier", 12, {}, <<Ws(<<32>>)>>, <<84>>),  \* 13
    [name |-> 15] @@ Inner("PropertyDeclaration", 9, <<15, 16>>, {"Private"}),  \* 14
    Leaf("Identifier", 14, {}, <<Ws(<<NL>>)>>, <<109>>),  \* 15
    [typeName |-> 17] @@ Inner("TypeReference", 14, <<17>>, {}),  \* 16
    [left |-> 18] @@ Inner("QualifiedName", 16, <<18, 19, 20>>, {}),  \* 17
    Leaf("Identifier", 17, {}, <<Ws(<<32>>)>>, <<113>>),  \* 18
    Leaf("DotToken", 17, {}, <<>>, <<46>>),  \* 19
    Leaf("Identifier", 17, {}, <<>>, <<84>>),  \* 20
    Inner("FunctionDeclaration", 1, <<22, 23, 24>>, {"Export"}),  \* 21
    Leaf("Keyword", 21, {}, <<Ws(<<NL>>), Comment(<<47, 47>>), Ws(<<NL, NL>>)>>, <<102>>),  \* 22
    Leaf("Identifier", 21, {}, <<Ws(<<32>>)>>, <<97>>),  \* 23
    Leaf("Token", 21, {}, <<Ws(<<NL, NL>>)>>, <<59>>),  \* 24
    Inner("VariableStatement", 1, <<26, 27>>, {"Export"}),  \* 25
    Leaf("Keyword", 25, {}, <<Ws(<<NL>>)>>, <<99>>),  \* 26
    Inner("VariableDeclarationList", 25, <<28>>, {}),  \* 27
    Inner("VariableDeclaration", 27, <<29, 30>>, {}),  \* 28
    Leaf("Identifier", 28, {}, <<Ws(<<32>>)>>, <<65>>),  \* 29
    [typeName |-> 31] @@ Inner("TypeReference", 28, <<31>>, {}),  \* 30
    [left |-> 32] @@ Inner("QualifiedName", 30, <<32, 33, 34>>, {}),  \* 31
    Leaf("Identifier", 31, {}, <<Ws(<<32>>)>>, <<113>>),  \* 32
    Leaf("DotToken", 31, {}, <<>>, <<46>>),  \* 33
    Leaf("Identifier", 31, {}, <<>>, <<84>>),  \* 34
    Inner("FunctionDeclaration", 1, <<36, 37>>, {}),  \* 35
    Leaf("Keyword", 35, {}, <<Ws(<<NL>>)>>, <<100>>),  \* 36
    Leaf("Identifier", 35, {}, <<Ws(<<32>>)>>, <<66>>),  \* 37
    Inner("ExportDeclaration", 1, <<39, 40>>, {}),  \* 38
    Leaf("Keyword", 38, {}, <<Ws(<<NL>>)>>, <<120>>),  \* 39
    Inner("ExportSpecifier", 38, <<41>>, {}),  \* 40
    Leaf("Identifier", 40, {}, <<Ws(<<32>>)>>, <<97, 98>>),  \* 41
    Inner("ClassDeclaration", 1, <<43, 44>>, {"Export", "Private"}),  \* 42
    Leaf("Keyword", 42, {}, <<Ws(<<NL>>)>>, <<122>>),  \* 43
    Leaf("Identifier", 42, {}, <<Ws(<<32>>)>>, <<66>>),  \* 44
    Inner("InterfaceDeclaration", 1, <<46, 47, 48>>, {"Export"}),  \* 45
    Leaf("Keyword", 45, {}, <<Ws(<<NL>>)>>, <<105>>),  \* 46
    Leaf("Identifier", 45, {}, <<Ws(<<32>>)>>, <<66>>),  \* 47
    Inner("SyntaxList", 45, <<49, 53>>, {}),  \* 48
    [name |-> 50] @@ Inner("PropertySignature", 48, <<50, 51>>, {}),  \* 49
    Leaf("Identifier", 49, {}, <<Ws(<<NL>>)>>, <<121>>),  \* 50
    [typeName |-> 52] @@ Inner("TypeReference", 49, <<52>>, {}),  \* 51
    Leaf("Identifier", 51, {}, <<Ws(<<32>>)>>, <<84>>),  \* 52
    [name |-> 54] @@ Inner("PropertySignature", 48, <<54, 55>>, {}),  \* 53
    Leaf("Identifier", 53, {}, <<Ws(<<NL>>)>>, <<115>>),  \* 54
    [expression |-> 56] @@ Inner("PropertyAccessExpression", 53, <<56, 57, 58>>, {}),  \* 55
    Leaf("ThisKeyword", 55, {}, <<Ws(<<32>>)>>, <<116>>),  \* 56
    Leaf("DotToken", 55, {}, <<>>, <<46>>),  \* 57
    Leaf("Identifier", 55, {}, <<>>, <<117>>),  \* 58
    Inner("ModuleDeclaration", 1, <<60, 61, 62>>, {"Export"}),  \* 59
    Leaf("Keyword", 59, {}, <<Ws(<<NL>>)>>, <<110>>),  \* 60
    Leaf("Identifier", 59, {}, <<Ws(<<32>>)>>, <<78>>),  \* 61
    Inner("ModuleBlock", 59, <<63>>, {}),  \* 62
    Inner("VariableStatement", 62, <<64, 65>>, {"Export"}),  \* 63
    Leaf("Keyword", 63, {}, <<Ws(<<NL>>)>>, <<99>>),  \* 64
    Inner("VariableDeclarationList", 63, <<66>>, {}),  \* 65
    Inner("VariableDeclaration", 65, <<67>>, {}),  \* 66
    Leaf("Identifier", 66, {}, <<Ws(<<32>>)>>, <<97, 98>>)  \* 67
  >>

FileProgram == MkProgram(FileNodes)

ClassA == 2
FunctionA == 21
StatementA == 25
VariableA == 28
FunctionB == 35
SpecifierAb == 40
PrivateB == 42
InterfaceB == 45
NamespaceN == 59
StatementAb == 63
VariableAb == 66

Declared(v, ds) ==
  [valueDeclaration |-> v, declarations |-> [defined |-> TRUE, items |-> ds]]
Undeclared ==
  [valueDeclaration |-> 0, declarations |-> [defined |-> FALSE, items |-> <<>>]]
Direct(name, d) == [name |-> name, alias |-> FALSE, target |-> 0] @@ d
Alias(name, target) ==
  [name |-> name, alias |-> TRUE, target |-> target]
  @@ Declared(0, <<SpecifierAb>>)

\* The symbols of the type checker: 1..10 can be exports of the module,
\* 11..14 are the symbols that getAliasedSymbol returns for the aliases 2, 4,
\* 5 and 10 (13 is the checker's unknown symbol).
Sym ==
  <<Direct(<<97>>, Declared(ClassA, <<ClassA>>)),
    Alias(<<97>>, 11),
    Direct(<<65>>, Declared(VariableA, <<VariableA>>)),
    Alias(<<97, 98>>, 12),
    Alias(<<97, 98>>, 13),
    Direct(<<97>>, Undeclared),
    Direct(<<66>>, Declared(FunctionB, <<FunctionB>>)),
    Direct(<<66>>, Declared(PrivateB, <<PrivateB>>)),
    Direct(<<66>>, Declared(0, <<InterfaceB>>)),
    Alias(<<97, 98>>, 14),
    Direct(<<97>>, Declared(FunctionA, <<FunctionA>>)),
    Direct(<<120>>, Declared(FunctionA, <<FunctionA>>)),
    Direct(<<117, 110>>, Undeclared),
    Direct(<<97, 98>>, Declared(VariableAb, <<VariableAb>>))>>

MaxSymbols == 2

Exportable == 1..10

\* what getExportsOfModule can return: symbols with pairwise distinct names
ExportLists ==
  {l \in UNION {[1..n -> Exportable] : n \in 0..MaxSymbols} :
     \A i, j \in 1..Len(l) : i # j => Sym[l[i]].name # Sym[l[j]].name}

FileNames ==
  {<<"a.d.ts">>, <<"a.d.ts", "b", "..">>, <<"a.ts">>, <<"a.d.ts", "b">>,
   <<"a.d.ts", "">>}

OptionValues ==
  {[stripExportPattern |-> sp, allowModuleIdentifiers |-> am] :
     sp \in {NoPattern, [defined |-> TRUE, prefix |-> <<97>>]},
     am \in {NoIdentifiers,
             [defined |-> TRUE, items |-> <<>>],
             [defined |-> TRUE, items |-> <<<<110, 115>>>>],
             [defined |-> TRUE, items |-> <<<<110, 115>>, <<113>>>>]}}

\* path.normalize on a relative path given as its segments (a trailing
\* separator is a last segment ""): "." and empty segments go, ".." takes
\* the segment before it along, a trailing separator stays
RECURSIVE normalizeSegments(_, _)
normalizeSegments(segs, acc) ==
  IF segs = <<>> THEN acc
  ELSE LET seg == Head(segs)
       IN IF seg \in {"", "."} THEN normalizeSegments(Tail(segs), acc)
          ELSE IF seg = ".." /\ acc # <<>> /\ acc[Len(acc)] # ".."
          THEN normalizeSegments(Tail(segs), SubSeq(acc, 1, Len(acc) - 1))
          ELSE normalizeSegments(Tail(segs), Append(acc, seg))

normalize(path) ==
  LET trailingSeparator == path # <<>> /\ path[Len(path)] = ""
      core == normalizeSegments(path, <<>>)
  IN IF path = <<>> THEN <<".">>
     ELSE (IF core = <<>> THEN <<".">> ELSE core)
          \o (IF trailingSeparator THEN <<"">> ELSE <<>>)

isDeclarationFileAlways(path) == TRUE

\* entrypoint.match(/\.d\.ts$/): the last segment ends in .d.ts
isDeclarationFile(path) == path # <<>> /\ path[Len(path)] \in {"a.d.ts"}

\* symbol.name.match(pattern) for the pattern /^prefix/
matchesNever(name, pattern) == FALSE

matches(name, pattern) ==
  /\ Len(pattern.prefix) <= Len(name)
  /\ SubSeq(name, 1, Len(pattern.prefix)) = pattern.prefix

\* String#localeCompare on names made of ASCII letters: letters first
\* without regard to case, then lower case before upper case
localeCompare(a, b) ==
  LET fold(s) == [i \in 1..Len(s) |->
                    IF s[i] >= 97 /\ s[i] <= 122 THEN s[i] - 32 ELSE s[i]]
      diff == {i \in 1..Len(a) : a[i] # b[i]}
      d == CHOOSE i \in diff : \A j \in diff : i <= j
  IN IF fold(a) # fold(b) THEN compareStrings(fold(a), fold(b))
     ELSE IF diff = {} THEN 0
     ELSE IF a[d] >= 97 THEN -1 ELSE 1

symbolCompareCodeUnits(a, b) == compareStrings(Sym[a].name, Sym[b].name)

symbolCompareFunction(a, b) == localeCompare(Sym[a].name, Sym[b].name)

hasDeclaration(s) ==
  Sym[s].valueDeclaration # 0 \/ Sym[s].declarations.defined

Resolved(s) == [threw |-> FALSE, symbol |-> s]
AliasRenamed(s) == [threw |-> TRUE, symbol |-> s]

resolveSymbolUnchecked(s) ==
  IF Sym[s].alias /\ hasDeclaration(Sym[s].target)
  THEN Resolved(Sym[s].target) ELSE Resolved(s)

resolveSymbolKeepAlias(s) == Resolved(s)

\* the callback of rawSymbols.map
resolveSymbol(s) ==
  IF Sym[s].alias
  THEN LET resolvedSymbol == Sym[s].target
       IN IF ~hasDeclaration(resolvedSymbol) THEN Resolved(s)
          ELSE IF Sym[resolvedSymbol].name # Sym[s].name
          THEN AliasRenamed(s)
          ELSE Resolved(resolvedSymbol)
  ELSE Resolved(s)

\* symbol.valueDeclaration || symbol.declarations && symbol.declarations[0]
firstDeclaration(s) ==
  IF Sym[s].valueDeclaration # 0 THEN Sym[s].valueDeclaration
  ELSE IF Sym[s].declarations.defined THEN Sym[s].declarations.items[1]
  ELSE 0

exportStatementNoWalk(p, d) == d

\* while (!(decl.flags & Export) && decl.parent) decl = decl.parent
RECURSIVE exportStatement(_, _)
exportStatement(p, d) ==
  IF "Export" \notin p.nodes[d].flags /\ p.nodes[d].parent # 0
  THEN exportStatement(p, p.nodes[d].parent) ELSE d

Init == pc = "start" /\ Idle

\* publicApiInternal up to the check of the file name
PublicApiInternal ==
  /\ pc = "start"
  /\ \E f \in FileNames, o \in OptionValues :
       /\ fileName' = f
       /\ options' = o
       /\ entrypoint' = normalize(f)
       /\ IF ~isDeclarationFile(normalize(f))
          THEN pc' = "failed" /\ error' = "NotADeclarationFile"
          ELSE pc' = "createProgram" /\ error' = error
  /\ UNCHANGED <<program, rawSymbols, resolvedSymbols, index, output, emitted,
                 located, warnings, frontEndCalls, result, decl, sanitized,
                 sourceFiles, moduleSymbol>>

\* ts.createProgram: the front end parses the entry file (or does not find
\* it) and binds the exports of the module (or finds it is not a module)
CreateProgram ==
  /\ pc = "createProgram"
  /\ frontEndCalls' = frontEndCalls + 1
  /\ program' = FileProgram
  /\ \/ sourceFiles' = {} /\ moduleSymbol' = NoModule
     \/ sourceFiles' = {entrypoint} /\ moduleSymbol' = NoModule
     \/ /\ sourceFiles' = {entrypoint}
        /\ \E l \in ExportLists :
              moduleSymbol' = [defined |-> TRUE, exports |-> l]
  /\ pc' = "emit"
  /\ UNCHANGED <<fileName, entrypoint, options, rawSymbols, resolvedSymbols,
                 index, output, emitted, located, warnings, error, result,
                 decl, sanitized>>

\* emitResolvedDeclarations: look the source file up, start the output
FindSourceFile ==
  /\ pc = "emit"
  /\ IF entrypoint \notin sourceFiles
     THEN pc' = "failed" /\ error' = "EntryFileNotFound" /\ output' = output
     ELSE pc' = "resolve" /\ error' = error /\ output' = <<>>
  /\ UNCHANGED <<fileName, entrypoint, options, program, rawSymbols,
                 resolvedSymbols, index, emitted, located, warnings,
                 frontEndCalls, result, decl, sanitized, sourceFiles,
                 moduleSymbol>>

GetResolvedSymbols ==
  /\ pc = "resolve"
  /\ LET raw == IF moduleSymbol.defined THEN moduleSymbol.exports ELSE <<>>
         mapped == [i \in 1..Len(raw) |-> resolveSymbol(raw[i])]
     IN /\ rawSymbols' = raw
        /\ IF \E i \in 1..Len(raw) : mapped[i].threw
           THEN /\ pc' = "failed" /\ error' = "AliasRenamed"
                /\ resolvedSymbols' = resolvedSymbols
           ELSE /\ pc' = "sort" /\ error' = error
                /\ resolvedSymbols' = [i \in 1..Len(raw) |-> mapped[i].symbol]
  /\ UNCHANGED <<fileName, entrypoint, options, program, index, output,
                 emitted, located, warnings, frontEndCalls, result, decl,
                 sanitized, sourceFiles, moduleSymbol>>

SortSymbols ==
  /\ pc = "sort"
  /\ resolvedSymbols' =
       sort(resolvedSymbols,
            [a \in Range(resolvedSymbols), b \in Range(resolvedSymbols) |->
               symbolCompareFunction(a, b)])
  /\ index' = 1
  /\ pc' = "loop"
  /\ UNCHANGED <<fileName, entrypoint, options, program, rawSymbols, output,
                 emitted, located, warnings, error, frontEndCalls, result,
                 decl, sanitized, sourceFiles, moduleSymbol>>

\* one iteration of  for (const symbol of resolvedSymbols)
EmitSymbol ==
  /\ pc = "loop"
  /\ index <= Len(resolvedSymbols)
  /\ LET symbol == resolvedSymbols[index]
         first == firstDeclaration(symbol)
         stmt == exportStatement(program, first)
         text == getSanitizedText(program, stmt, options)
         skip == /\ pc' = "loop" /\ index' = index + 1
                 /\ UNCHANGED <<output, emitted, error, decl, sanitized>>
     IN IF /\ options.stripExportPattern.defined
           /\ matches(Sym[symbol].name, options.stripExportPattern)
        THEN skip /\ UNCHANGED <<located, warnings>>
        ELSE IF first = 0
        THEN /\ skip /\ UNCHANGED located
             /\ warnings' = Append(warnings,
                                   [kind |-> "NoDeclaration", symbol |-> symbol])
        ELSE IF "Export" \notin program.nodes[stmt].flags
        THEN /\ skip
             /\ located' = located \cup {symbol}
             /\ warnings' = Append(warnings, [kind |-> "NoExportDeclaration",
                                              symbol |-> symbol])
        ELSE /\ located' = located \cup {symbol}
             /\ decl' = stmt
             /\ sanitized' = text
             /\ UNCHANGED warnings
             /\ IF text.threw
                THEN /\ pc' = "failed" /\ error' = "UnlistedModuleIdentifier"
                     /\ UNCHANGED <<index, output, emitted>>
                ELSE /\ pc' = "loop" /\ index' = index + 1 /\ error' = error
                     /\ output' = (IF output # <<>> THEN output \o <<NL>>
                                   ELSE output)
                                  \o stripEmptyLines(text.text) \o <<NL>>
                     /\ emitted' = Append(emitted, [symbol |-> symbol,
                                                    node |-> stmt,
                                                    text |-> text.text])
  /\ UNCHANGED <<fileName, entrypoint, options, program, rawSymbols,
                 resolvedSymbols, frontEndCalls, result, sourceFiles,
                 moduleSymbol>>

Return ==
  /\ pc = "loop"
  /\ index > Len(resolvedSymbols)
  /\ pc' = "done"
  /\ result' = [returned |-> TRUE, text |-> output]
  /\ UNCHANGED <<fileName, entrypoint, options, program, rawSymbols,
                 resolvedSymbols, index, output, emitted, located, warnings,
                 error, frontEndCalls, decl, sanitized, sourceFiles,
                 moduleSymbol>>

Next ==
  \/ PublicApiInternal
  \/ CreateProgram
  \/ FindSourceFile
  \/ GetResolvedSymbols
  \/ SortSymbols
  \/ EmitSymbol
  \/ Return

Spec == Init /\ [][Next]_vars

-----------------------------------------------------------------------------
(* Properties of the call, checked under Spec *)

Stripped(s) ==
  /\ options.stripExportPattern.defined
  /\ Len(options.stripExportPattern.prefix) <= Len(Sym[s].name)
  /\ \A i \in 1..Len(options.stripExportPattern.prefix) :
        Sym[s].name[i] = options.stripExportPattern.prefix[i]

EmittedSymbols == {emitted[i].symbol : i \in 1..Len(emitted)}

\* C1: the emitted entries are in strictly ascending order of symbol name
\* (the order of String#localeCompare), whatever order the exports came in.
C1_EntriesAscending ==
  \A i, j \in 1..Len(emitted) :
     i < j => localeCompare(Sym[emitted[i].symbol].name,
                            Sym[emitted[j].symbol].name) < 0

\* two entries were emitted in the opposite order of the export list, and
\* in the opposite order of their code units
C1_Witness ==
  /\ pc = "done"
  /\ Len(emitted) = 2
  /\ Len(rawSymbols) = 2
  /\ Sym[rawSymbols[1]].name = Sym[emitted[2].symbol].name
  /\ Sym[rawSymbols[2]].name = Sym[emitted[1].symbol].name
  /\ StrGreater(Sym[emitted[1].symbol].name, Sym[emitted[2].symbol].name)

\* the identifier at the far end of the chain of links (expression or left)
\* that starts at node n, or 0
RECURSIVE Leftmost(_, _, _)
Leftmost(p, n, link) ==
  LET next == p.nodes[n][link]
  IN IF next = 0 THEN 0
     ELSE IF p.nodes[next].kind = "Identifier" THEN next
     ELSE Leftmost(p, next, link)

\* the leftmost identifier of a dotted reference, or 0
Qualifier(p, n) ==
  CASE p.nodes[n].kind = "PropertyAccessExpression" ->
         Leftmost(p, n, "expression")
    [] p.nodes[n].kind = "TypeReference"
       /\ p.nodes[p.nodes[n].typeName].kind = "QualifiedName" ->
         Leftmost(p, p.nodes[n].typeName, "left")
    [] OTHER -> 0

Allowed(text) ==
  /\ options.allowModuleIdentifiers.defined
  /\ \E i \in 1..Len(options.allowModuleIdentifiers.items) :
        options.allowModuleIdentifiers.items[i] = text

\* node n is visited when the subtree of root is sanitized
Reaches(p, root, n) ==
  /\ root \in PathUp(p, n, root)
  /\ \A a \in PathUp(p, n, root) : ~Flagged(p, a, "Private")

\* the nearest ancestor-or-self of d flagged exported, or 0
NearestExported(p, d) ==
  LET up == PathUp(p, d, 0)
      ex == {a \in up : Flagged(p, a, "Export")}
  IN IF ex = {} THEN 0
     ELSE CHOOSE a \in ex : \A b \in ex : a \in PathUp(p, b, 0) => a = b

Located(s) ==
  IF firstDeclaration(s) = 0 THEN 0
  ELSE NearestExported(FileProgram, firstDeclaration(s))

\* sanitizing the export statement of some resolved symbol that is not
\* stripped reaches a dotted reference whose qualifier is not allowed
ReachesUnlisted ==
  \E i \in 1..Len(resolvedSymbols) :
     LET s == resolvedSymbols[i]
     IN /\ ~Stripped(s)
        /\ Located(s) # 0
        /\ \E n \in 1..Len(FileProgram.nodes) :
              /\ Reaches(FileProgram, Located(s), n)
              /\ Qualifier(FileProgram, n) # 0
              /\ ~Allowed(FileProgram.nodes[Qualifier(FileProgram, n)].text)

Ended == pc \in {"done", "failed"}

\* C4: the call fails with UnlistedModuleIdentifier, returning no text, if
\* and only if sanitizing an emitted export reaches a dotted reference whose
\* leftmost identifier is not in allowModuleIdentifiers (or the option is
\* absent); a type reference to a plain identifier never counts.
C4_UnlistedIff ==
  /\ Ended => /\ (error = "UnlistedModuleIdentifier") <=> ReachesUnlisted
              /\ pc = "failed" => result = NoResult
  /\ error = "UnlistedModuleIdentifier" =>
       /\ pc = "failed" /\ sanitized.threw
       /\ FileProgram.nodes[sanitized.at].kind = "Identifier"
       /\ ~Allowed(FileProgram.nodes[sanitized.at].text)

\* the call failed on q of a qualified type name although ns is allowed and
\* a first export with plain type references and ns.B was emitted
C4_Witness ==
  /\ pc = "failed" /\ error = "UnlistedModuleIdentifier"
  /\ Allowed(<<110, 115>>)
  /\ Len(emitted) = 1 /\ emitted[1].node = ClassA
  /\ FileProgram.nodes[sanitized.at].text = <<113>>

ResolutionDone ==
  pc \in {"sort", "loop", "done"} \/ error = "UnlistedModuleIdentifier"

IsRenamedAlias(s) ==
  /\ Sym[s].alias
  /\ Sym[Sym[s].target].valueDeclaration # 0
     \/ Sym[Sym[s].target].declarations.defined
  /\ Sym[Sym[s].target].name # Sym[s].name

Exports == IF moduleSymbol.defined THEN moduleSymbol.exports ELSE <<>>

\* C5: getResolvedSymbols keeps a non-alias symbol, keeps an alias whose
\* target has no declaration, replaces an alias by a declared target of the
\* same name, and fails with AliasRenamed on a declared target of another
\* name; every resolved symbol has the name of the export it came from.
C5_Resolution ==
  /\ ResolutionDone =>
       /\ rawSymbols = Exports
       /\ Len(resolvedSymbols) = Len(rawSymbols)
       /\ \A s \in Range(rawSymbols) :
             /\ ~IsRenamedAlias(s)
             /\ \E r \in Range(resolvedSymbols) :
                   /\ Sym[r].name = Sym[s].name
                   /\ r = IF Sym[s].alias
                             /\ (Sym[Sym[s].target].valueDeclaration # 0
                                 \/ Sym[Sym[s].target].declarations.defined)
                          THEN Sym[s].target ELSE s
  /\ error = "AliasRenamed" <=>
       /\ pc = "failed" /\ error \notin {"NotADeclarationFile", "EntryFileNotFound"}
       /\ \E s \in Range(rawSymbols) : IsRenamedAlias(s)

\* an alias was replaced by its target and another alias was kept
C5_Witness ==
  /\ ResolutionDone
  /\ \E s \in Range(rawSymbols) :
        Sym[s].alias /\ Sym[s].target \in Range(resolvedSymbols)
  /\ \E s \in Range(rawSymbols) :
        Sym[s].alias /\ s \in Range(resolvedSymbols)

\* C6: a resolved symbol whose name matches stripExportPattern has no entry
\* and its declaration is never located or sanitized; when the call returns,
\* every other resolved symbol with an exported enclosing statement has
\* exactly one entry.
C6_Exclusion ==
  /\ \A s \in Range(resolvedSymbols) :
        Stripped(s) => s \notin EmittedSymbols /\ s \notin located
  /\ pc = "done" =>
       \A s \in Range(resolvedSymbols) :
          ~Stripped(s) /\ Located(s) # 0 =>
             Cardinality({i \in 1..Len(emitted) : emitted[i].symbol = s}) = 1

\* the call returned one entry and had stripped an export whose statement
\* holds a qualifier that is not allowed
C6_Witness ==
  /\ pc = "done"
  /\ Len(emitted) = 1
  /\ \E s \in Range(resolvedSymbols) :
        /\ Stripped(s) /\ Located(s) = ClassA
        /\ ~Allowed(<<110, 115>>)

\* the lines of a text in which every line ends with a line break
Lines(text) ==
  IF text = <<>> THEN <<>>
  ELSE LET pieces == split(text, NL)
       IN SubSeq(pieces, 1, Len(pieces) - 1)

\* the number of lines of non-zero length in a text
FilledLines(text) ==
  Cardinality({i \in 1..Len(split(text, NL)) : split(text, NL)[i] # <<>>})

RECURSIVE FilledBefore(_)
FilledBefore(m) ==
  IF m = 0 THEN 0 ELSE FilledLines(emitted[m].text) + FilledBefore(m - 1)

\* exactly one zero-length line between consecutive entries, none elsewhere
OnlySeparatorsBlank ==
  /\ output = <<>> \/ output[Len(output)] = NL
  /\ emitted # <<>> =>
       Len(Lines(output)) = FilledBefore(Len(emitted)) + Len(emitted) - 1
  /\ \A i \in 1..Len(Lines(output)) :
        Lines(output)[i] = <<>> <=>
           \E m \in 1..(Len(emitted) - 1) : i = FilledBefore(m) + m

\* C7 (as amended): when the sanitized text of every emitted entry has a line
\* of non-zero length, the output has exactly one zero-length line between
\* consecutive entries and none before the first entry or inside an entry.
C7_BlankLines ==
  (\A j \in 1..Len(emitted) : FilledLines(emitted[j].text) > 0)
    => OnlySeparatorsBlank

\* C7 as stated: for every set of symbols
C7_AnySymbols == OnlySeparatorsBlank

\* two entries, the first with zero-length lines in its sanitized text
C7_Witness ==
  /\ pc = "done"
  /\ Len(emitted) = 2
  /\ \A j \in 1..2 : FilledLines(emitted[j].text) > 0
  /\ \E i \in 2..(Len(emitted[1].text) - 1) :
        emitted[1].text[i] = NL /\ emitted[1].text[i + 1] = NL

EndsInDts(path) == path # <<>> /\ path[Len(path)] = "a.d.ts"

NothingStarted ==
  /\ pc = "failed" /\ error = "NotADeclarationFile"
  /\ frontEndCalls = 0 /\ program = NoProgram
  /\ rawSymbols = <<>> /\ resolvedSymbols = <<>> /\ located = {}
  /\ emitted = <<>> /\ output = <<>> /\ result = NoResult

\* C8 (as amended): when the normalized form of the path does not end in
\* .d.ts the call fails with NotADeclarationFile before the front end is
\* asked for a program, and nothing is resolved or sanitized.
C8_EntryValidation ==
  pc # "start" /\ ~EndsInDts(normalize(fileName)) => NothingStarted

\* C8 as stated: when the path itself does not end in .d.ts
C8_RawPath ==
  pc # "start" /\ ~EndsInDts(fileName) => NothingStarted

\* a path that ends in .d.ts was rejected for its trailing separator
C8_Witness ==
  /\ NothingStarted
  /\ fileName = <<"a.d.ts", "">>

Warned(kind, s) ==
  \E i \in 1..Len(warnings) : warnings[i] = [kind |-> kind, symbol |-> s]

Processed == 1..(index - 1)

\* C9: a symbol without declaration, and one whose parent walk ends without
\* an exported node, gives a warning and no entry and does not fail the
\* call; any other symbol is located at its nearest exported
\* ancestor-or-self; the remaining symbols are still processed in order.
C9_Warnings ==
  /\ \A i \in Processed :
        LET s == resolvedSymbols[i]
        IN IF Stripped(s)
           THEN \A w \in Range(warnings) : w.symbol # s
           ELSE IF firstDeclaration(s) = 0
           THEN Warned("NoDeclaration", s) /\ s \notin EmittedSymbols
           ELSE IF Located(s) = 0
           THEN Warned("NoExportDeclaration", s) /\ s \notin EmittedSymbols
           ELSE \E k \in 1..Len(emitted) :
                   emitted[k].symbol = s /\ emitted[k].node = Located(s)
  /\ \A k \in 1..Len(emitted) :
        /\ emitted[k].node = Located(emitted[k].symbol)
        /\ ~ Stripped(emitted[k].symbol)
  /\ Len(warnings) + Len(emitted) <= Cardinality(Processed)
  /\ pc = "done" => index = Len(resolvedSymbols) + 1

\* after a warning for a symbol without declaration, a variable was emitted
\* with the statement above its declaration
C9_Witness ==
  /\ pc = "done"
  /\ Len(warnings) = 1 /\ warnings[1].kind = "NoDeclaration"
  /\ resolvedSymbols[1] = warnings[1].symbol
  /\ Len(emitted) = 1
  /\ Sym[emitted[1].symbol].valueDeclaration = VariableA
  /\ emitted[1].node = StatementA

\* C10: every alias is resolved before anything is sorted, filtered or
\* sanitized: with a renamed alias among the exports the call fails with
\* AliasRenamed, also when the alias matches stripExportPattern or another
\* export would fail with UnlistedModuleIdentifier.
C10_ResolveFirst ==
  /\ (\E s \in Range(Exports) : IsRenamedAlias(s)) =>
        /\ pc \in {"emit", "resolve", "failed"}
        /\ pc = "failed" => error \in {"AliasRenamed", "EntryFileNotFound"}
        /\ index = 0 /\ located = {} /\ emitted = <<>> /\ warnings = <<>>
  /\ pc \in {"sort", "loop", "done"} => Len(resolvedSymbols) = Len(Exports)

\* the renamed alias matches the pattern and sorts after an export whose
\* statement holds a qualifier that is not allowed
C10_Witness ==
  /\ pc = "failed" /\ error = "AliasRenamed"
  /\ \E s \in Range(rawSymbols) :
        /\ IsRenamedAlias(s) /\ Stripped(s)
        /\ \E t \in Range(rawSymbols) :
              /\ Located(t) = StatementA /\ ~Stripped(t)
              /\ localeCompare(Sym[t].name, Sym[s].name) < 0
  /\ ~options.allowModuleIdentifiers.defined

====
